---- MODULE Spec2Model ----
(***************************************************************************)
(* State-machine model of the profile repository client                    *)
(* (src/python/slicer_config/simple.py: RepoClient) and of the             *)
(* configuration dependency resolver (src/api/v1/dependency_resolver.py:   *)
(* DependencyResolver).                                                    *)
(*                                                                         *)
(*   Spec          RepoClient.update and RepoClient.download_profile       *)
(*   SpecClosure   download_profile("root") over every small dependency    *)
(*                 graph, every request succeeding with the genuine bytes  *)
(*   SpecVerify    RepoClient._verify_checksum as a pure function          *)
(*   SpecResolver  DependencyResolver.get_dependencies                     *)
(*   SpecMerge     DependencyResolver._merge_config, source map disabled   *)
(*   SpecSourceMap DependencyResolver._merge_config, source map enabled    *)
(*   SpecResolve   DependencyResolver.resolve_config                       *)
(*   SpecManager   RepositoryManager.find_profile                          *)
(*   SpecTermination  download_profile("root") with requests that may fail *)
(*                 without bound, under weak fairness of the loop          *)
(***************************************************************************)
EXTENDS Integers, Sequences, FiniteSets, TLC

\* ------------------------------------------------------------------ bounds
MaxUpdates == 2         \* update() calls in one behaviour
MaxDownloads == 1       \* download_profile() calls in one behaviour
MaxFetchFailures == 2   \* failed artifact requests in one download_profile call
MaxContentLen == 2      \* bytes in a buffer handed to _verify_checksum
MaxDocs == 3            \* documents merged into one accumulator
MaxEdges == 5           \* dependency edges of a manifest drawn for SpecClosure
MaxProfiles == 2        \* records in the manifest of a repository of the manager
MaxCycleEdges == 2      \* dependency edges of a manifest drawn for SpecTermination

VARIABLES
    \* ---- RepoClient fields (simple.py:29-34) and the cache directory
    manifest,           \* self.manifest: None or the parsed manifest
    profiles_by_uuid,   \* self.profiles_by_uuid: uuid -> profile record
    cache_files,        \* files under self.cache_dir: path -> content
    \* ---- RepoClient.update: position and locals
    upd_pc,             \* "idle" | "verify" | "parse" | "process"
    manifest_data,      \* bytes of manifest.json as fetched
    sig_data,           \* bytes of manifest.json.sig as fetched
    upd_result,         \* "none" | "True" | "False": what the last update returned
    pre_manifest,       \* self.manifest when the current/last update was entered
    pre_index,          \* self.profiles_by_uuid when it was entered
    n_updates,
    \* ---- RepoClient.download_profile: position and locals
    dl_pc,              \* "idle" | "loop"
    dl_root,            \* the profile_uuid argument
    download_queue,
    processed_uuids,
    downloaded_files,   \* the local list: destinations written by this call
    dl_return,          \* "none" | "line142" | "line156": the return statement taken
    dl_value,           \* the list the call returned
    fetch_log,          \* the artifact requests this call sent, in order, with outcome
    n_downloads,
    \* ---- _verify_checksum as a pure function
    vc_pc,              \* "off" | "input" | "done"
    file_content,
    expected_checksum,
    vc_result,          \* "none" | "True" | "False"
    \* ---- DependencyResolver: the repository on disk and get_dependencies
    files,              \* path -> configuration file, or Absent
    config_path,        \* the path get_dependencies was asked for
    rs_pc,              \* "off" | "call" | "build" | "done"
    stack,              \* the frames of _build_dependency_tree, innermost last
    visited,
    resolution_order,
    dependencies,
    dependency_tree,    \* the names along the single branch of the tree
    rs_outcome,         \* "none" | "returned" | the exception raised
    \* ---- DependencyResolver._merge_config, source map disabled
    mg_pc,              \* "off" | "run"
    resolved_config,    \* the accumulator (parameter target)
    mg_before,          \* the accumulator before the last call
    mg_source,          \* the document of the last call (parameter source)
    n_merged,           \* documents merged so far
    \* ---- DependencyResolver._merge_config, source map enabled
    source_map,         \* the parameter source_map: None, a dict or a str
    mg_raised,          \* "" or the exception the last call raised
    mg_prov,            \* leaf path -> name of the last document that set it
    \* ---- DependencyResolver.resolve_config: position and locals
    rv_pc,              \* "off" | "deps" | "merge" | "target" | "done"
    include_source_map,
    rv_i,               \* position of the loop of lines 93-97 in resolution_order
    rv_merged,          \* the paths of the documents merged, in order
    rv_outcome,         \* "none" | "returned" | the exception raised
    inheritance_chain,  \* result["inheritance_chain"]
    \* ---- RepositoryManager (simple.py:170-269) and find_profile
    repositories,       \* self.repositories: the clients in insertion order
    fp_pc,              \* "off" | "call" | "done"
    profile_name,       \* the argument profile_name
    slicer,             \* the argument slicer
    fp_return,          \* the value find_profile returned
    fp_log,             \* the message find_profile logged
    fp_candidates       \* the (namespace, name) lines find_profile printed

clientVars == <<manifest, profiles_by_uuid, cache_files>>
updVars == <<upd_pc, manifest_data, sig_data, upd_result, pre_manifest, pre_index, n_updates>>
dlVars == <<dl_pc, dl_root, download_queue, processed_uuids, downloaded_files,
            dl_return, dl_value, fetch_log, n_downloads>>
vcVars == <<vc_pc, file_content, expected_checksum, vc_result>>
rsVars == <<files, config_path, rs_pc, stack, visited, resolution_order,
            dependencies, dependency_tree, rs_outcome>>
mgVars == <<mg_pc, resolved_config, mg_before, mg_source, n_merged>>
smVars == <<source_map, mg_raised, mg_prov>>
rvVars == <<rv_pc, include_source_map, rv_i, rv_merged, rv_outcome, inheritance_chain>>
fpVars == <<repositories, fp_pc, profile_name, slicer, fp_return, fp_log, fp_candidates>>
vars == <<clientVars, updVars, dlVars, vcVars, rsVars, mgVars, smVars, rvVars, fpVars>>

\* ------------------------------------------------------- digests (hashlib)
Bytes == {0, 1}

\* hashlib.sha256(content).hexdigest(): a collision-free digest of a byte
\* string.  The byte string is read as a binary numeral behind a leading 1,
\* which is injective on byte strings of every length.
RECURSIVE Sha256Hex(_)
Sha256Hex(content) ==
    IF content = <<>> THEN 1
    ELSE 2 * Sha256Hex(SubSeq(content, 1, Len(content) - 1)) + content[Len(content)]

\* "algo:value" as split(':', 1) sees it
Checksum(algo, value) == [algo |-> algo, value |-> value]

Algorithms == {"sha256", "md5", "sha1"}

\* RepoClient._verify_checksum (simple.py:158-167)
VerifyChecksum(content, expected) ==
    IF expected.algo # "sha256"
    THEN TRUE
    ELSE Sha256Hex(content) = expected.value

\* ------------------------------------------------- manifests on the network
UUIDs == {"root", "b", "c", "d", "z"}

PathOf(u) ==
    CASE u = "root" -> "root.json"
      [] u = "b" -> "b.json"
      [] u = "c" -> "c.json"
      [] u = "d" -> "d.json"
      [] OTHER -> "z.json"

Paths == {PathOf(u) : u \in UUIDs}

\* an artifact record of the manifest (uuid, path, dependencies)
Profile(u, deps) == [uuid |-> u, path |-> PathOf(u), dependencies |-> deps]

Genuine == <<0, 1>>     \* the artifact bytes the publisher checksummed
Tampered == <<1, 1>>    \* the same bytes with one byte flipped
ArtifactContents == {Genuine, Tampered}

GoodSum == Checksum("sha256", Sha256Hex(Genuine))
Md5Sum == Checksum("md5", 7)

NoChecksums == [p \in {} |-> GoodSum]

\* self.manifest = None
None == [present |-> FALSE, namespace |-> "", has_profiles |-> FALSE,
         profiles |-> <<>>, checksums |-> NoChecksums]

\* a parsed manifest object
Doc(ns, profiles, checksums) ==
    [present |-> TRUE, namespace |-> ns, has_profiles |-> TRUE,
     profiles |-> profiles, checksums |-> checksums]

DiamondDoc ==
    Doc("diamond",
        <<Profile("root", {"b", "c"}), Profile("b", {"d"}),
          Profile("c", {"d"}), Profile("d", {})>>,
        [p \in {"root.json", "b.json", "c.json", "d.json"} |-> GoodSum])

\* a dependency cycle, a self-dependency, a dependency with no record ("z"),
\* and an unsupported checksum algorithm for b.json
CycleDoc ==
    Doc("cycle",
        <<Profile("root", {"root", "b"}), Profile("b", {"root", "z"})>>,
        [p \in {"root.json", "b.json"} |-> IF p = "b.json" THEN Md5Sum ELSE GoodSum])

\* a chain whose middle artifact has no entry in the checksums table
ChainDoc ==
    Doc("chain",
        <<Profile("root", {"b"}), Profile("b", {"c"}), Profile("c", {})>>,
        [p \in {"root.json", "c.json"} |-> GoodSum])

\* two records carry the uuid "root"
DuplicateDoc ==
    Doc("dup",
        <<Profile("root", {"b"}), Profile("b", {}), Profile("root", {})>>,
        [p \in {"root.json", "b.json"} |-> GoodSum])

\* a JSON object without the "profiles" key
NoProfilesDoc ==
    [present |-> TRUE, namespace |-> "noprofiles", has_profiles |-> FALSE,
     profiles |-> <<>>, checksums |-> NoChecksums]

\* the diamond with the checksums of the tampered artifacts
EvilDoc ==
    Doc("diamond",
        <<Profile("root", {"b", "c"}), Profile("b", {"d"}),
          Profile("c", {"d"}), Profile("d", {})>>,
        [p \in {"root.json", "b.json", "c.json", "d.json"} |->
            Checksum("sha256", Sha256Hex(Tampered))])

\* the bytes of a manifest.json: valid JSON text of a document, or not JSON
JsonBytes(doc) == [json_ok |-> TRUE, doc |-> doc]
NotJson == [json_ok |-> FALSE, doc |-> None]

\* what the publisher signed with the trusted key (malformed ones included)
PublishedBytes ==
    {JsonBytes(DiamondDoc), JsonBytes(CycleDoc), JsonBytes(ChainDoc),
     JsonBytes(DuplicateDoc), JsonBytes(NoProfilesDoc), NotJson}

\* what the network location can serve
ServedBytes == PublishedBytes \cup {JsonBytes(EvilDoc)}

TrustedKeys == {"publisher"}

\* detached signatures that exist: the publisher's over what it published,
\* anybody else's over anything
Signatures ==
    {[key |-> "publisher", over |-> b] : b \in PublishedBytes}
        \cup {[key |-> "attacker", over |-> b] : b \in ServedBytes}

\* self.gpg.verify_data(sig_data, manifest_data) (simple.py:56): the signature
\* is by a key of the keyring and over exactly these bytes
GpgVerify(sig, data) == sig.key \in TrustedKeys /\ sig.over = data

NoSignature == [key |-> "attacker", over |-> NotJson]

\* json.loads(manifest_data) (simple.py:67)
JsonDecodeError(data) == ~data.json_ok
JsonLoads(data) == data.doc

\* {p['uuid']: p for p in self.manifest['profiles']} (simple.py:83): a later
\* record replaces an earlier one with the same uuid
IndexByUuid(profiles) ==
    [u \in {profiles[i].uuid : i \in DOMAIN profiles} |->
        LET last == CHOOSE i \in DOMAIN profiles :
                        /\ profiles[i].uuid = u
                        /\ \A j \in DOMAIN profiles : j > i => profiles[j].uuid # u
        IN  profiles[last]]

EmptyIndex == [u \in {} |-> Profile(u, {})]

\* RepoClient._process_manifest (simple.py:75-83): the new value of
\* self.profiles_by_uuid
ProcessManifest(m, index) ==
    IF ~m.present \/ ~m.has_profiles
    THEN index
    ELSE IndexByUuid(m.profiles)

\* the locals of a download_profile call that is not running
DownloadIdle ==
    /\ dl_pc' = "idle" /\ dl_root' = "root" /\ download_queue' = {}
    /\ processed_uuids' = {} /\ downloaded_files' = <<>>
    /\ dl_return' = "none" /\ dl_value' = <<>> /\ fetch_log' = <<>>
    /\ n_downloads' = n_downloads

\* -------------------------------------------------------- RepoClient.update
\* simple.py:42-54: one of the two requests raises RequestException
UpdateFetchFail ==
    /\ upd_pc = "idle" /\ dl_pc = "idle" /\ n_updates < MaxUpdates
    /\ n_updates' = n_updates + 1
    /\ pre_manifest' = manifest /\ pre_index' = profiles_by_uuid
    /\ upd_result' = "False"
    /\ manifest_data' = NotJson /\ sig_data' = NoSignature
    /\ upd_pc' = "idle"
    /\ DownloadIdle
    /\ UNCHANGED <<clientVars, vcVars, rsVars, mgVars, smVars, rvVars, fpVars>>

\* simple.py:42-50: both requests succeed
UpdateFetch ==
    /\ upd_pc = "idle" /\ dl_pc = "idle" /\ n_updates < MaxUpdates
    /\ n_updates' = n_updates + 1
    /\ pre_manifest' = manifest /\ pre_index' = profiles_by_uuid
    /\ \E data \in ServedBytes, sig \in Signatures :
          /\ manifest_data' = data
          /\ sig_data' = sig
    /\ upd_result' = "none"
    /\ upd_pc' = "verify"
    /\ DownloadIdle
    /\ UNCHANGED <<clientVars, vcVars, rsVars, mgVars, smVars, rvVars, fpVars>>

\* update without the "return False" of line 62
UpdateVerifyNoReturn ==
    /\ upd_pc = "verify"
    /\ upd_pc' = "parse" /\ upd_result' = upd_result
    /\ UNCHANGED <<manifest_data, sig_data, pre_manifest, pre_index, n_updates>>
    /\ UNCHANGED <<clientVars, dlVars, vcVars, rsVars, mgVars, smVars, rvVars, fpVars>>

\* simple.py:56-64
UpdateVerify ==
    /\ upd_pc = "verify"
    /\ IF ~GpgVerify(sig_data, manifest_data)
       THEN upd_pc' = "idle" /\ upd_result' = "False"
       ELSE upd_pc' = "parse" /\ upd_result' = upd_result
    /\ UNCHANGED <<manifest_data, sig_data, pre_manifest, pre_index, n_updates>>
    /\ UNCHANGED <<clientVars, dlVars, vcVars, rsVars, mgVars, smVars, rvVars, fpVars>>

\* simple.py:66-67 and 70-72: json.loads and the assignment to self.manifest
UpdateParse ==
    /\ upd_pc = "parse"
    /\ IF JsonDecodeError(manifest_data)
       THEN /\ upd_pc' = "idle" /\ upd_result' = "False"
            /\ manifest' = manifest
       ELSE /\ upd_pc' = "process" /\ upd_result' = upd_result
            /\ manifest' = JsonLoads(manifest_data)
    /\ UNCHANGED <<manifest_data, sig_data, pre_manifest, pre_index, n_updates>>
    /\ UNCHANGED <<profiles_by_uuid, cache_files, dlVars, vcVars, rsVars, mgVars, smVars, rvVars, fpVars>>

\* simple.py:68-69 and 73: self._process_manifest(), then return True
UpdateProcess ==
    /\ upd_pc = "process"
    /\ profiles_by_uuid' = ProcessManifest(manifest, profiles_by_uuid)
    /\ upd_pc' = "idle" /\ upd_result' = "True"
    /\ UNCHANGED <<manifest_data, sig_data, pre_manifest, pre_index, n_updates>>
    /\ UNCHANGED <<manifest, cache_files, dlVars, vcVars, rsVars, mgVars, smVars, rvVars, fpVars>>

\* ---------------------------------------------- RepoClient.download_profile
\* simple.py:105-107
DownloadStart ==
    /\ dl_pc = "idle" /\ upd_pc = "idle" /\ n_downloads < MaxDownloads
    /\ n_downloads' = n_downloads + 1
    /\ \E profile_uuid \in UUIDs :
          /\ dl_root' = profile_uuid
          /\ download_queue' = {profile_uuid}
    /\ processed_uuids' = {}
    /\ downloaded_files' = <<>>
    /\ fetch_log' = <<>>
    /\ dl_return' = "none" /\ dl_value' = <<>>
    /\ dl_pc' = "loop"
    /\ upd_result' = "none" /\ manifest_data' = NotJson /\ sig_data' = NoSignature
    /\ pre_manifest' = manifest /\ pre_index' = profiles_by_uuid
    /\ UNCHANGED <<upd_pc, n_updates>>
    /\ UNCHANGED <<clientVars, vcVars, rsVars, mgVars, smVars, rvVars, fpVars>>

\* the dependencies replace the queue instead of joining it
QueueAfterReplaced(uuid) ==
    {dep_uuid \in profiles_by_uuid[uuid].dependencies : dep_uuid \notin processed_uuids}

\* simple.py:120-123: the queue after the popped uuid's dependencies are added
QueueAfter(uuid) ==
    (download_queue \ {uuid}) \cup
        {dep_uuid \in profiles_by_uuid[uuid].dependencies : dep_uuid \notin processed_uuids}

FetchFailures == Cardinality({i \in DOMAIN fetch_log : ~fetch_log[i].ok})

\* simple.py:111-118: the popped uuid was processed already or has no record
DownloadSkip ==
    /\ dl_pc = "loop"
    /\ \E uuid \in download_queue :
          /\ uuid \in processed_uuids \/ uuid \notin DOMAIN profiles_by_uuid
          /\ download_queue' = download_queue \ {uuid}
    /\ UNCHANGED <<dl_pc, dl_root, processed_uuids, downloaded_files, dl_return,
                   dl_value, fetch_log, n_downloads>>
    /\ UNCHANGED <<clientVars, updVars, vcVars, rsVars, mgVars, smVars, rvVars, fpVars>>

\* simple.py:111-135 and 149-152: the request raises, the loop continues
DownloadFetchFail ==
    /\ dl_pc = "loop" /\ FetchFailures < MaxFetchFailures
    /\ \E uuid \in download_queue :
          /\ uuid \notin processed_uuids /\ uuid \in DOMAIN profiles_by_uuid
          /\ download_queue' = QueueAfter(uuid)
          /\ fetch_log' = Append(fetch_log, [uuid |-> uuid, ok |-> FALSE])
    /\ UNCHANGED <<dl_pc, dl_root, processed_uuids, downloaded_files, dl_return,
                   dl_value, n_downloads>>
    /\ UNCHANGED <<clientVars, updVars, vcVars, rsVars, mgVars, smVars, rvVars, fpVars>>

\* the same iteration once fetch_log holds MaxFetchFailures failed requests:
\* the request raises, the loop continues, the log records no more of them
DownloadFetchFailAgain ==
    /\ dl_pc = "loop" /\ FetchFailures >= MaxFetchFailures
    /\ \E uuid \in download_queue :
          /\ uuid \notin processed_uuids /\ uuid \in DOMAIN profiles_by_uuid
          /\ download_queue' = QueueAfter(uuid)
    /\ UNCHANGED <<dl_pc, dl_root, processed_uuids, downloaded_files, dl_return,
                   dl_value, fetch_log, n_downloads>>
    /\ UNCHANGED <<clientVars, updVars, vcVars, rsVars, mgVars, smVars, rvVars, fpVars>>

\* simple.py:130 and 138-139: whether the fetched bytes pass line 138-139
ChecksumPasses(path, content) ==
    IF path \notin DOMAIN manifest.checksums
    THEN TRUE
    ELSE VerifyChecksum(content, manifest.checksums[path])

\* simple.py:111-142: the bytes fail the checksum, the call returns []
DownloadMismatch ==
    /\ dl_pc = "loop"
    /\ \E uuid \in download_queue, content \in ArtifactContents :
          /\ uuid \notin processed_uuids /\ uuid \in DOMAIN profiles_by_uuid
          /\ ~ChecksumPasses(profiles_by_uuid[uuid].path, content)
          /\ download_queue' = QueueAfter(uuid)
          /\ fetch_log' = Append(fetch_log, [uuid |-> uuid, ok |-> TRUE])
    /\ dl_pc' = "idle" /\ dl_return' = "line142" /\ dl_value' = <<>>
    /\ UNCHANGED <<dl_root, processed_uuids, downloaded_files, n_downloads>>
    /\ UNCHANGED <<clientVars, updVars, vcVars, rsVars, mgVars, smVars, rvVars, fpVars>>

\* simple.py:111-147 and 154: the bytes are written and the uuid is processed
DownloadPersist ==
    /\ dl_pc = "loop"
    /\ \E uuid \in download_queue, content \in ArtifactContents :
          LET path == profiles_by_uuid[uuid].path IN
          /\ uuid \notin processed_uuids /\ uuid \in DOMAIN profiles_by_uuid
          /\ ChecksumPasses(path, content)
          /\ download_queue' = QueueAfter(uuid)
          /\ fetch_log' = Append(fetch_log, [uuid |-> uuid, ok |-> TRUE])
          /\ cache_files' = [p \in DOMAIN cache_files \cup {path} |->
                                IF p = path THEN content ELSE cache_files[p]]
          /\ downloaded_files' = Append(downloaded_files, path)
          /\ processed_uuids' = processed_uuids \cup {uuid}
    /\ UNCHANGED <<dl_pc, dl_root, dl_return, dl_value, n_downloads>>
    /\ UNCHANGED <<manifest, profiles_by_uuid, updVars, vcVars, rsVars, mgVars, smVars, rvVars, fpVars>>

\* simple.py:110 and 156: the queue is empty
DownloadReturn ==
    /\ dl_pc = "loop" /\ download_queue = {}
    /\ dl_pc' = "idle" /\ dl_return' = "line156" /\ dl_value' = downloaded_files
    /\ UNCHANGED <<dl_root, download_queue, processed_uuids, downloaded_files,
                   fetch_log, n_downloads>>
    /\ UNCHANGED <<clientVars, updVars, vcVars, rsVars, mgVars, smVars, rvVars, fpVars>>

\* ------------------------------------------- DependencyResolver: repository
\* the file names _find_and_load_config can locate in its search paths
Stems == {"A", "B", "C"}
\* a configuration file outside the search paths (slicers/<slicer>/<type>/...)
Elsewhere == "T"
FilePaths == Stems \cup {Elsewhere}

\* config["config"].get("inherits") is None or empty
NoInherit == ""

Absent == [exists |-> FALSE, name |-> "", inherits |-> NoInherit]
Config(name, inherits) == [exists |-> TRUE, name |-> name, inherits |-> inherits]

\* config.name is free text: a file need not be named after its stem
LocatableConfigs == {Config(n, i) : n \in Stems, i \in Stems \cup {NoInherit}}
ElsewhereConfigs == {Config(n, i) : n \in FilePaths, i \in Stems \cup {NoInherit}}

\* DependencyResolver._load_config on an existing path (dependency_resolver.py:116-124)
LoadConfig(path) == files[path]

\* DependencyResolver._find_and_load_config (dependency_resolver.py:171-186):
\* the file of that stem in the first search path that has one, or None
FindAndLoadConfig(config_name) ==
    IF config_name \in Stems /\ files[config_name].exists
    THEN LoadConfig(config_name)
    ELSE Absent

\* -------------------------------------- DependencyResolver.get_dependencies
Frame(config) == [config |-> config, phase |-> "enter", parent |-> Absent]

Top == stack[Len(stack)]
Pop == SubSeq(stack, 1, Len(stack) - 1)

\* resolution_order.append(config_name) unless it is there (lines 138-139, 168-169)
AppendOnce(order, config_name) ==
    IF config_name \in {order[i] : i \in DOMAIN order} THEN order ELSE Append(order, config_name)

\* dependency_resolver.py:42-57
GetDependencies ==
    /\ rs_pc = "call"
    /\ IF ~files[config_path].exists
       THEN /\ rs_pc' = "done" /\ rs_outcome' = "ConfigurationNotFoundError"
            /\ UNCHANGED <<stack, dependency_tree>>
       ELSE /\ rs_pc' = "build" /\ rs_outcome' = rs_outcome
            /\ stack' = <<Frame(LoadConfig(config_path))>>
            /\ dependency_tree' = <<LoadConfig(config_path).name>>
    /\ visited' = {} /\ resolution_order' = <<>> /\ dependencies' = <<>>
    /\ UNCHANGED <<files, config_path>>
    /\ UNCHANGED <<clientVars, updVars, dlVars, vcVars, mgVars, smVars, rvVars, fpVars>>

\* dependency_resolver.py:130-133: the name was visited, return silently
BuildVisited ==
    /\ rs_pc = "build" /\ stack # <<>> /\ Top.phase = "enter"
    /\ Top.config.name \in visited
    /\ stack' = Pop
    /\ UNCHANGED <<files, config_path, rs_pc, visited, resolution_order,
                   dependencies, dependency_tree, rs_outcome>>
    /\ UNCHANGED <<clientVars, updVars, dlVars, vcVars, mgVars, smVars, rvVars, fpVars>>

\* dependency_resolver.py:135-140: no inheritance
BuildBase ==
    /\ rs_pc = "build" /\ stack # <<>> /\ Top.phase = "enter"
    /\ Top.config.name \notin visited
    /\ Top.config.inherits = NoInherit
    /\ resolution_order' = AppendOnce(resolution_order, Top.config.name)
    /\ stack' = Pop
    /\ UNCHANGED <<files, config_path, rs_pc, visited, dependencies,
                   dependency_tree, rs_outcome>>
    /\ UNCHANGED <<clientVars, updVars, dlVars, vcVars, mgVars, smVars, rvVars, fpVars>>

\* dependency_resolver.py:143-145: the parent cannot be located
BuildParentNotFound ==
    /\ rs_pc = "build" /\ stack # <<>> /\ Top.phase = "enter"
    /\ Top.config.name \notin visited
    /\ Top.config.inherits # NoInherit
    /\ ~FindAndLoadConfig(Top.config.inherits).exists
    /\ rs_pc' = "done" /\ rs_outcome' = "ConfigurationNotFoundError"
    /\ UNCHANGED <<files, config_path, stack, visited, resolution_order,
                   dependencies, dependency_tree>>
    /\ UNCHANGED <<clientVars, updVars, dlVars, vcVars, mgVars, smVars, rvVars, fpVars>>

\* dependency_resolver.py:143-157: mark the name visited, recurse into the parent
BuildRecurse ==
    /\ rs_pc = "build" /\ stack # <<>> /\ Top.phase = "enter"
    /\ Top.config.name \notin visited
    /\ Top.config.inherits # NoInherit
    /\ LET parent_config == FindAndLoadConfig(Top.config.inherits) IN
          /\ parent_config.exists
          /\ visited' = visited \cup {Top.config.name}
          /\ dependency_tree' = Append(dependency_tree, Top.config.inherits)
          /\ stack' = Append(
                 [stack EXCEPT ![Len(stack)] =
                     [config |-> Top.config, phase |-> "after", parent |-> parent_config]],
                 Frame(parent_config))
    /\ UNCHANGED <<files, config_path, rs_pc, resolution_order, dependencies, rs_outcome>>
    /\ UNCHANGED <<clientVars, updVars, dlVars, vcVars, mgVars, smVars, rvVars, fpVars>>

\* dependency_resolver.py:159-169: after the recursive call returned
BuildAfter ==
    /\ rs_pc = "build" /\ stack # <<>> /\ Top.phase = "after"
    /\ dependencies' = Append(dependencies,
                              [name |-> Top.config.inherits,
                               inherits |-> Top.parent.inherits])
    /\ resolution_order' = AppendOnce(resolution_order, Top.config.name)
    /\ stack' = Pop
    /\ UNCHANGED <<files, config_path, rs_pc, visited, dependency_tree, rs_outcome>>
    /\ UNCHANGED <<clientVars, updVars, dlVars, vcVars, mgVars, smVars, rvVars, fpVars>>

\* dependency_resolver.py:59-70
GetDependenciesReturn ==
    /\ rs_pc = "build" /\ stack = <<>>
    /\ rs_pc' = "done" /\ rs_outcome' = "returned"
    /\ UNCHANGED <<files, config_path, stack, visited, resolution_order,
                   dependencies, dependency_tree>>
    /\ UNCHANGED <<clientVars, updVars, dlVars, vcVars, mgVars, smVars, rvVars, fpVars>>

\* ---------------------------------------- DependencyResolver._merge_config
Scalars == {1, 2, 3, 5}
TopKeys == {"a"}
InnerKeys == {"x", "y"}

EmptyDoc == [k \in {} |-> 0]

\* a JSON value: a scalar leaf, or a mapping (a dict)
Scalar(v) == [is_map |-> FALSE, scalar |-> v, map |-> EmptyDoc]
Mapping(m) == [is_map |-> TRUE, scalar |-> 0, map |-> m]

InnerMaps == UNION {[ks -> {Scalar(v) : v \in Scalars}] : ks \in SUBSET InnerKeys}
Values == {Scalar(v) : v \in Scalars} \cup {Mapping(m) : m \in InnerMaps}
Documents == UNION {[ks -> Values] : ks \in SUBSET TopKeys}

\* dict.update: every incoming key replaces the accumulator's value
MergeConfigShallow(target, source) ==
    [key \in DOMAIN target \cup DOMAIN source |->
        IF key \in DOMAIN source THEN source[key] ELSE target[key]]

\* DependencyResolver._merge_config with source_map None
\* (dependency_resolver.py:203-215): the accumulator after the call
RECURSIVE MergeConfig(_, _)
MergeConfig(target, source) ==
    [key \in DOMAIN target \cup DOMAIN source |->
        IF key \notin DOMAIN source THEN target[key]
        ELSE IF source[key].is_map /\ key \in DOMAIN target /\ target[key].is_map
             THEN Mapping(MergeConfig(target[key].map, source[key].map))
             ELSE source[key]]

\* one call self._merge_config(resolved_config, document, name, None)
\* (dependency_resolver.py:96-97, 102-103)
MergeCall ==
    /\ mg_pc = "run" /\ n_merged < MaxDocs
    /\ \E source \in Documents :
          /\ mg_source' = source
          /\ resolved_config' = MergeConfig(resolved_config, source)
    /\ mg_before' = resolved_config
    /\ n_merged' = n_merged + 1
    /\ UNCHANGED mg_pc
    /\ UNCHANGED <<clientVars, updVars, dlVars, vcVars, rsVars, smVars, rvVars, fpVars>>

\* ----------------------- DependencyResolver._merge_config, source map enabled
\* the values the parameter source_map takes: None, a dict whose entries are
\* source names (line 215 stores nothing else), or one of those names (a str)
NoEntries == [k \in {} |-> ""]
SmNone == [kind |-> "none", entries |-> NoEntries, text |-> ""]
SmDict(entries) == [kind |-> "dict", entries |-> entries, text |-> ""]
SmStr(text) == [kind |-> "str", entries |-> NoEntries, text |-> text]

\* the truth value of source_map in "... if source_map else None" (line 211)
Truthy(sm) ==
    \/ sm.kind = "dict" /\ DOMAIN sm.entries # {}
    \/ sm.kind = "str" /\ sm.text # ""

\* source_map.get(key, {}) if source_map else None (line 211), for a
\* source_map on which .get exists
SubMap(sm, key) ==
    IF ~Truthy(sm) THEN SmNone
    ELSE IF key \in DOMAIN sm.entries THEN SmStr(sm.entries[key])
    ELSE SmDict(NoEntries)

\* d[key] = value on a dict
Put(d, key, value) ==
    [k \in DOMAIN d \cup {key} |-> IF k = key THEN value ELSE d[k]]

\* DependencyResolver._merge_config (dependency_resolver.py:203-215) over the
\* keys of source not yet visited: the accumulator, the source map and the
\* exception that escaped ("" for none).  The order in which the keys are
\* visited decides only which statement raises first.
RECURSIVE MergeConfigMapped(_, _, _, _, _)
MergeConfigMapped(target, source, source_name, sm, keys) ==
    IF keys = {}
    THEN [target |-> target, source_map |-> sm, raised |-> ""]
    ELSE
      LET key == CHOOSE k \in keys : TRUE
          value == source[key]
      IN
        IF value.is_map /\ key \in DOMAIN target /\ target[key].is_map
        THEN
          \* line 211: str has no attribute get
          IF Truthy(sm) /\ sm.kind = "str"
          THEN [target |-> target, source_map |-> sm, raised |-> "AttributeError"]
          ELSE
            LET inner == MergeConfigMapped(target[key].map, value.map, source_name,
                                           SubMap(sm, key), DOMAIN value.map)
            IN  IF inner.raised # ""
                THEN [target |-> target, source_map |-> sm, raised |-> inner.raised]
                ELSE MergeConfigMapped(Put(target, key, Mapping(inner.target)),
                                       source, source_name, sm, keys \ {key})
        ELSE
          \* line 215: str does not support item assignment
          IF sm.kind = "str"
          THEN [target |-> target, source_map |-> sm, raised |-> "TypeError"]
          ELSE MergeConfigMapped(
                   Put(target, key, value), source, source_name,
                   IF sm.kind = "none" THEN sm
                   ELSE SmDict(Put(sm.entries, key, source_name)),
                   keys \ {key})

\* the names under which documents are merged
SourceNames == {"P", "C"}

\* the leaf field paths of a document
LeafPaths(doc) ==
    {<<k>> : k \in {j \in DOMAIN doc : ~doc[j].is_map}}
    \cup UNION {{<<k, j>> : j \in DOMAIN doc[k].map} : k \in {j \in DOMAIN doc : doc[j].is_map}}

\* one call self._merge_config(resolved_config, document, name, source_map)
\* after source_map = {} (dependency_resolver.py:90, 96-97, 102-103); an
\* exception leaves resolve_config and its locals are gone
MergeCallMapped ==
    /\ mg_pc = "map" /\ n_merged < MaxDocs /\ mg_raised = ""
    /\ \E source \in Documents, source_name \in SourceNames :
          LET call == MergeConfigMapped(resolved_config, source, source_name,
                                        source_map, DOMAIN source)
          IN  /\ mg_source' = source
              /\ mg_raised' = call.raised
              /\ IF call.raised = ""
                 THEN /\ resolved_config' = call.target
                      /\ source_map' = call.source_map
                      /\ mg_prov' = [p \in LeafPaths(call.target) |->
                                        IF p \in LeafPaths(source) THEN source_name
                                        ELSE mg_prov[p]]
                 ELSE /\ resolved_config' = EmptyDoc
                      /\ source_map' = SmNone
                      /\ mg_prov' = [p \in {} |-> ""]
    /\ mg_before' = resolved_config
    /\ n_merged' = n_merged + 1
    /\ UNCHANGED mg_pc
    /\ UNCHANGED <<clientVars, updVars, dlVars, vcVars, rsVars, rvVars, fpVars>>

\* ------------------------------------- DependencyResolver.resolve_config
\* the fields a configuration file carries besides name and inherits
BodyOf(path) ==
    CASE path = "A" -> [k \in {"a"} |-> Mapping([j \in {"x"} |-> Scalar(1)])]
      [] path = "B" -> [k \in {"a"} |-> Mapping([j \in {"x", "y"} |-> Scalar(3)])]
      [] path = "C" -> [k \in {"a"} |-> Scalar(5)]
      [] OTHER -> [k \in {"a"} |-> Mapping([j \in {"y"} |-> Scalar(2)])]

\* config_data["config"] of the file at path
ConfigDocument(path) ==
    LET named == Put(BodyOf(path), "name", Scalar(files[path].name)) IN
    IF files[path].inherits = NoInherit THEN named
    ELSE Put(named, "inherits", Scalar(files[path].inherits))

\* self._merge_config(resolved_config, document, name, source_map) of lines
\* 96-97 and 102-103
MergeInto(path, source_name) ==
    MergeConfigMapped(resolved_config, ConfigDocument(path), source_name,
                      source_map, DOMAIN ConfigDocument(path))

\* line 86: get_dependencies raised, the exception leaves resolve_config
ResolveDepsRaised ==
    /\ rv_pc = "deps" /\ rs_pc = "done" /\ rs_outcome # "returned"
    /\ rv_pc' = "done" /\ rv_outcome' = rs_outcome
    /\ UNCHANGED <<include_source_map, rv_i, rv_merged, inheritance_chain>>
    /\ UNCHANGED <<clientVars, updVars, dlVars, vcVars, rsVars, mgVars, smVars, fpVars>>

\* lines 86-90: get_dependencies returned; the empty accumulator and source map
ResolveStart ==
    /\ rv_pc = "deps" /\ rs_pc = "done" /\ rs_outcome = "returned"
    /\ resolved_config' = EmptyDoc
    /\ source_map' = IF include_source_map THEN SmDict(NoEntries) ELSE SmNone
    /\ rv_i' = 1 /\ rv_pc' = "merge"
    /\ UNCHANGED <<include_source_map, rv_merged, rv_outcome, inheritance_chain>>
    /\ UNCHANGED <<mg_pc, mg_before, mg_source, n_merged, mg_raised, mg_prov>>
    /\ UNCHANGED <<clientVars, updVars, dlVars, vcVars, rsVars, fpVars>>

\* lines 93-95: no file is found under this name of resolution_order
ResolveSkipMember ==
    /\ rv_pc = "merge" /\ rv_i <= Len(resolution_order)
    /\ ~FindAndLoadConfig(resolution_order[rv_i]).exists
    /\ rv_i' = rv_i + 1
    /\ UNCHANGED <<rv_pc, include_source_map, rv_merged, rv_outcome, inheritance_chain>>
    /\ UNCHANGED <<clientVars, updVars, dlVars, vcVars, rsVars, mgVars, smVars, fpVars>>

\* lines 93-97: the file found under this name of resolution_order is merged
ResolveMergeMember ==
    /\ rv_pc = "merge" /\ rv_i <= Len(resolution_order)
    /\ FindAndLoadConfig(resolution_order[rv_i]).exists
    /\ LET config_name == resolution_order[rv_i]
           call == MergeInto(config_name, config_name)
       IN  IF call.raised = ""
           THEN /\ resolved_config' = call.target
                /\ source_map' = call.source_map
                /\ rv_i' = rv_i + 1
                /\ rv_merged' = Append(rv_merged, config_name)
                /\ UNCHANGED <<rv_pc, rv_outcome>>
           ELSE /\ rv_pc' = "done" /\ rv_outcome' = call.raised
                /\ UNCHANGED <<resolved_config, source_map, rv_i, rv_merged>>
    /\ UNCHANGED <<include_source_map, inheritance_chain>>
    /\ UNCHANGED <<mg_pc, mg_before, mg_source, n_merged, mg_raised, mg_prov>>
    /\ UNCHANGED <<clientVars, updVars, dlVars, vcVars, rsVars, fpVars>>

\* lines 99-114: the target is loaded from its path and merged last
ResolveMergeTarget ==
    /\ rv_pc = "merge" /\ rv_i > Len(resolution_order)
    /\ LET call == MergeInto(config_path, LoadConfig(config_path).name)
       IN  IF call.raised = ""
           THEN /\ resolved_config' = call.target
                /\ source_map' = call.source_map
                /\ rv_merged' = Append(rv_merged, config_path)
                /\ rv_outcome' = "returned"
                /\ inheritance_chain' =
                       Append(resolution_order, LoadConfig(config_path).name)
           ELSE /\ rv_outcome' = call.raised
                /\ UNCHANGED <<resolved_config, source_map, rv_merged, inheritance_chain>>
    /\ rv_pc' = "done"
    /\ UNCHANGED <<include_source_map, rv_i>>
    /\ UNCHANGED <<mg_pc, mg_before, mg_source, n_merged, mg_raised, mg_prov>>
    /\ UNCHANGED <<clientVars, updVars, dlVars, vcVars, rsVars, fpVars>>

\* ------------------------------------------------------- RepositoryManager
ProfileNames == {"N", "M"}
Slicers == {"cura", "prusaslicer"}
Namespaces == {"ns1", "ns2"}

\* the clients of self.clients, in insertion order
Clients == {1, 2}

\* the argument profile_name as line 239-240 reads it: with a '/', the
\* stripped parts before and after the first one; without, the whole string
Qualified(namespace, name) == [qualified |-> TRUE, namespace |-> namespace, name |-> name]
Unqualified(name) == [qualified |-> FALSE, namespace |-> "", name |-> name]
NoRequest == Unqualified("")

\* None, and a record of manifest['profiles'] (manage_repo.py:126-135)
NoProfile == [found |-> FALSE, uuid |-> "", name |-> "", slicer |-> ""]
ManagedProfile(uuid, name, slicer_type) ==
    [found |-> TRUE, uuid |-> uuid, name |-> name, slicer |-> slicer_type]

\* the uuid of the record at a position of the manifest of a client
UuidAt(client, position) ==
    CASE client = 1 /\ position = 1 -> "1-1"
      [] client = 1 /\ position = 2 -> "1-2"
      [] client = 1 -> "1-3"
      [] client = 2 /\ position = 1 -> "2-1"
      [] client = 2 /\ position = 2 -> "2-2"
      [] OTHER -> "2-3"

\* the profiles lists a repository can publish
ProfileLists(client) ==
    UNION {{[j \in 1..n |-> ManagedProfile(UuidAt(client, j), f[j][1], f[j][2])] :
               f \in [1..n -> ProfileNames \X Slicers]} : n \in 0..MaxProfiles}

\* a RepoClient of the manager: the manifest its repository publishes, and
\* whether self.manifest holds it (loaded) or is None
Client(namespace, profiles, loaded) ==
    [namespace |-> namespace, profiles |-> profiles, loaded |-> loaded]

\* RepoClient.find_profile_by_name (simple.py:91-98) on a loaded manifest
FindProfileByName(profiles, name) ==
    LET hits == {j \in DOMAIN profiles : profiles[j].name = name} IN
    IF hits = {} THEN NoProfile
    ELSE profiles[CHOOSE j \in hits : \A k \in hits : j <= k]

\* the positions of self.clients, in order
ClientOrder(repos) == [i \in 1..Len(repos) |-> i]

\* find_profile with a namespace (simple.py:239-247)
FindQualified(repos, request, slicer_type) ==
    LET hit(i) == FindProfileByName(repos[i].profiles, request.name)
        matches == SelectSeq(ClientOrder(repos),
                      LAMBDA i : /\ repos[i].loaded
                                 /\ repos[i].namespace = request.namespace
                                 /\ hit(i).found /\ hit(i).slicer = slicer_type)
    IN  IF matches = <<>> THEN NoProfile ELSE hit(matches[1])

\* found_profiles of find_profile without a namespace (simple.py:250-258)
FoundProfiles(repos, request, slicer_type) ==
    LET hit(i) == FindProfileByName(repos[i].profiles, request.name)
        matches == SelectSeq(ClientOrder(repos),
                      LAMBDA i : /\ repos[i].loaded
                                 /\ hit(i).found /\ hit(i).slicer = slicer_type)
    IN  [k \in DOMAIN matches |->
            [namespace |-> repos[matches[k]].namespace, profile |-> hit(matches[k])]]

\* RepositoryManager.find_profile with a namespace (simple.py:239-247)
FindProfileQualified ==
    /\ fp_pc = "call" /\ profile_name.qualified
    /\ fp_return' = FindQualified(repositories, profile_name, slicer)
    /\ fp_log' = "" /\ fp_candidates' = <<>>
    /\ fp_pc' = "done"
    /\ UNCHANGED <<repositories, profile_name, slicer>>
    /\ UNCHANGED <<clientVars, updVars, dlVars, vcVars, rsVars, mgVars, smVars, rvVars>>

\* RepositoryManager.find_profile without a namespace (simple.py:249-269);
\* client.update() of line 253 installs the published manifest or fails
FindProfileUnqualified ==
    /\ fp_pc = "call" /\ ~profile_name.qualified
    /\ \E updated \in SUBSET {i \in DOMAIN repositories : ~repositories[i].loaded} :
          LET repos == [i \in DOMAIN repositories |->
                           IF i \in updated
                           THEN Client(repositories[i].namespace,
                                       repositories[i].profiles, TRUE)
                           ELSE repositories[i]]
              found_profiles == FoundProfiles(repos, profile_name, slicer)
          IN  /\ repositories' = repos
              /\ IF Len(found_profiles) = 0
                 THEN /\ fp_log' = "not found" /\ fp_candidates' = <<>>
                      /\ fp_return' = NoProfile
                 ELSE IF Len(found_profiles) > 1
                 THEN /\ fp_log' = "ambiguous"
                      /\ fp_candidates' =
                            [k \in DOMAIN found_profiles |->
                                [namespace |-> found_profiles[k].namespace,
                                 name |-> found_profiles[k].profile.name]]
                      /\ fp_return' = NoProfile
                 ELSE /\ fp_log' = "" /\ fp_candidates' = <<>>
                      /\ fp_return' = found_profiles[1].profile
    /\ fp_pc' = "done"
    /\ UNCHANGED <<profile_name, slicer>>
    /\ UNCHANGED <<clientVars, updVars, dlVars, vcVars, rsVars, mgVars, smVars, rvVars>>

\* ------------------------------------------------------------ specification
NoFiles == [p \in {} |-> Genuine]

\* RepoClient.__init__ (simple.py:29-34), an empty cache directory
InitClient ==
    /\ manifest = None
    /\ profiles_by_uuid = EmptyIndex
    /\ cache_files = NoFiles
    /\ upd_pc = "idle" /\ manifest_data = NotJson
    /\ sig_data = NoSignature
    /\ upd_result = "none" /\ pre_manifest = None /\ pre_index = EmptyIndex
    /\ n_updates = 0
    /\ dl_pc = "idle" /\ dl_root = "root" /\ download_queue = {}
    /\ processed_uuids = {} /\ downloaded_files = <<>>
    /\ dl_return = "none" /\ dl_value = <<>> /\ fetch_log = <<>>
    /\ n_downloads = 0

VerifyOff ==
    /\ vc_pc = "off" /\ file_content = <<>>
    /\ expected_checksum = GoodSum /\ vc_result = "none"

ResolverOff ==
    /\ files = [p \in FilePaths |-> Absent] /\ config_path = Elsewhere
    /\ rs_pc = "off" /\ stack = <<>> /\ visited = {}
    /\ resolution_order = <<>> /\ dependencies = <<>> /\ dependency_tree = <<>>
    /\ rs_outcome = "none"

MergeOff ==
    /\ mg_pc = "off" /\ resolved_config = EmptyDoc
    /\ mg_before = EmptyDoc /\ mg_source = EmptyDoc /\ n_merged = 0

SourceMapOff ==
    /\ source_map = SmNone /\ mg_raised = "" /\ mg_prov = NoEntries

ResolveOff ==
    /\ rv_pc = "off" /\ include_source_map = FALSE /\ rv_i = 1
    /\ rv_merged = <<>> /\ rv_outcome = "none" /\ inheritance_chain = <<>>

ManagerOff ==
    /\ repositories = <<>> /\ fp_pc = "off"
    /\ profile_name = NoRequest /\ slicer = ""
    /\ fp_return = NoProfile /\ fp_log = "" /\ fp_candidates = <<>>

Init ==
    /\ InitClient /\ VerifyOff /\ ResolverOff /\ MergeOff
    /\ SourceMapOff /\ ResolveOff /\ ManagerOff

Next ==
    \/ UpdateFetchFail
    \/ UpdateFetch
    \/ UpdateVerify
    \/ UpdateParse
    \/ UpdateProcess
    \/ DownloadStart
    \/ DownloadSkip
    \/ DownloadFetchFail
    \/ DownloadMismatch
    \/ DownloadPersist
    \/ DownloadReturn

Spec == Init /\ [][Next]_vars

\* ----------------------------------------------- closure specification
\* the identifiers that have a record; "z" never has one
RecordIds == UUIDs \ {"z"}

\* a dependency edge: a record's uuid and one entry of its dependencies list
Edges == RecordIds \X UUIDs

RECURSIVE EdgeSets(_)
EdgeSets(n) ==
    IF n = 0 THEN {{}}
    ELSE LET smaller == EdgeSets(n - 1)
         IN  smaller \cup {S \cup {e} : S \in smaller, e \in Edges}

\* the manifest with one record per identifier, these dependency edges and
\* the sha256 checksum of every artifact
GraphDoc(edges) ==
    Doc("graph",
        <<Profile("root", {e[2] : e \in {x \in edges : x[1] = "root"}}),
          Profile("b", {e[2] : e \in {x \in edges : x[1] = "b"}}),
          Profile("c", {e[2] : e \in {x \in edges : x[1] = "c"}}),
          Profile("d", {e[2] : e \in {x \in edges : x[1] = "d"}})>>,
        [p \in {PathOf(u) : u \in RecordIds} |-> GoodSum])

\* the client after update() installed a verified manifest and
\* download_profile("root") ran lines 105-107
InitClosure ==
    /\ VerifyOff /\ ResolverOff /\ MergeOff
    /\ SourceMapOff /\ ResolveOff /\ ManagerOff
    /\ \E edges \in EdgeSets(MaxEdges) : manifest = GraphDoc(edges)
    /\ profiles_by_uuid = ProcessManifest(manifest, EmptyIndex)
    /\ cache_files = NoFiles
    /\ upd_pc = "idle" /\ manifest_data = NotJson /\ sig_data = NoSignature
    /\ upd_result = "none" /\ pre_manifest = manifest /\ pre_index = profiles_by_uuid
    /\ n_updates = 1
    /\ dl_pc = "loop" /\ dl_root = "root" /\ download_queue = {"root"}
    /\ processed_uuids = {} /\ downloaded_files = <<>>
    /\ dl_return = "none" /\ dl_value = <<>> /\ fetch_log = <<>>
    /\ n_downloads = 1

\* every request succeeds and delivers bytes that match the digest
NextClosure ==
    \/ DownloadSkip
    \/ DownloadPersist
    \/ DownloadReturn

SpecClosure == InitClosure /\ [][NextClosure]_vars

\* ------------------------------------------- termination specification
\* the client after update() installed a verified manifest and
\* download_profile("root") ran lines 105-107; requests may fail any number
\* of times
InitTermination ==
    /\ VerifyOff /\ ResolverOff /\ MergeOff
    /\ SourceMapOff /\ ResolveOff /\ ManagerOff
    /\ \E edges \in EdgeSets(MaxCycleEdges) : manifest = GraphDoc(edges)
    /\ profiles_by_uuid = ProcessManifest(manifest, EmptyIndex)
    /\ cache_files = NoFiles
    /\ upd_pc = "idle" /\ manifest_data = NotJson /\ sig_data = NoSignature
    /\ upd_result = "none" /\ pre_manifest = manifest /\ pre_index = profiles_by_uuid
    /\ n_updates = 1
    /\ dl_pc = "loop" /\ dl_root = "root" /\ download_queue = {"root"}
    /\ processed_uuids = {} /\ downloaded_files = <<>>
    /\ dl_return = "none" /\ dl_value = <<>> /\ fetch_log = <<>>
    /\ n_downloads = 1

NextTermination ==
    \/ DownloadSkip
    \/ DownloadFetchFail
    \/ DownloadFetchFailAgain
    \/ DownloadMismatch
    \/ DownloadPersist
    \/ DownloadReturn

\* the thread running download_profile is never suspended for ever: while
\* the loop can take a step, it takes one
SpecTermination ==
    InitTermination /\ [][NextTermination]_vars /\ WF_vars(NextTermination)

\* ------------------------------------ _verify_checksum as a pure function
Contents == UNION {[1..n -> Bytes] : n \in 0..MaxContentLen}

ExpectedChecksums == {Checksum(a, Sha256Hex(c)) : a \in Algorithms, c \in Contents}

InitVerify ==
    /\ InitClient /\ ResolverOff /\ MergeOff
    /\ SourceMapOff /\ ResolveOff /\ ManagerOff
    /\ vc_pc = "input"
    /\ file_content \in Contents
    /\ expected_checksum \in ExpectedChecksums
    /\ vc_result = "none"

\* a call of RepoClient._verify_checksum (simple.py:158-167)
VerifyCall ==
    /\ vc_pc = "input"
    /\ vc_result' = IF VerifyChecksum(file_content, expected_checksum)
                    THEN "True" ELSE "False"
    /\ vc_pc' = "done"
    /\ UNCHANGED <<file_content, expected_checksum>>
    /\ UNCHANGED <<clientVars, updVars, dlVars, rsVars, mgVars, smVars, rvVars, fpVars>>

NextVerify == VerifyCall

SpecVerify == InitVerify /\ [][NextVerify]_vars

\* ------------------------------------------------- resolver specification
\* a repository on disk and a request: when the requested path is one of the
\* locatable files, there is no file elsewhere
InitResolver ==
    /\ InitClient /\ VerifyOff /\ MergeOff
    /\ SourceMapOff /\ ResolveOff /\ ManagerOff
    /\ files \in [FilePaths -> LocatableConfigs \cup ElsewhereConfigs \cup {Absent}]
    /\ \A s \in Stems : files[s] \in LocatableConfigs \cup {Absent}
    /\ config_path \in FilePaths
    /\ config_path # Elsewhere => files[Elsewhere] = Absent
    /\ rs_pc = "call" /\ stack = <<>> /\ visited = {}
    /\ resolution_order = <<>> /\ dependencies = <<>> /\ dependency_tree = <<>>
    /\ rs_outcome = "none"

NextResolver ==
    \/ GetDependencies
    \/ BuildVisited
    \/ BuildBase
    \/ BuildParentNotFound
    \/ BuildRecurse
    \/ BuildAfter
    \/ GetDependenciesReturn

SpecResolver == InitResolver /\ [][NextResolver]_vars

\* ---------------------------------------------------- merge specification
\* resolved_config = {} (dependency_resolver.py:89)
InitMerge ==
    /\ InitClient /\ VerifyOff /\ ResolverOff
    /\ SourceMapOff /\ ResolveOff /\ ManagerOff
    /\ mg_pc = "run" /\ resolved_config = EmptyDoc
    /\ mg_before = EmptyDoc /\ mg_source = EmptyDoc /\ n_merged = 0

NextMerge == MergeCall

SpecMerge == InitMerge /\ [][NextMerge]_vars

\* ----------------------------------------------- source-map specification
\* resolved_config = {} and source_map = {} (dependency_resolver.py:89-90)
InitSourceMap ==
    /\ InitClient /\ VerifyOff /\ ResolverOff /\ ResolveOff /\ ManagerOff
    /\ mg_pc = "map" /\ resolved_config = EmptyDoc
    /\ mg_before = EmptyDoc /\ mg_source = EmptyDoc /\ n_merged = 0
    /\ source_map = SmDict(NoEntries) /\ mg_raised = "" /\ mg_prov = NoEntries

NextSourceMap == MergeCallMapped

SpecSourceMap == InitSourceMap /\ [][NextSourceMap]_vars

\* ------------------------------------------------- resolve specification
\* a repository on disk and a call resolve_config(slicer, type, config_path,
\* include_source_map), entered at line 86
InitResolve ==
    /\ InitClient /\ VerifyOff /\ MergeOff /\ SourceMapOff /\ ManagerOff
    /\ files \in [FilePaths -> LocatableConfigs \cup ElsewhereConfigs \cup {Absent}]
    /\ \A s \in Stems : files[s] \in LocatableConfigs \cup {Absent}
    /\ config_path \in FilePaths
    /\ config_path # Elsewhere => files[Elsewhere] = Absent
    /\ rs_pc = "call" /\ stack = <<>> /\ visited = {}
    /\ resolution_order = <<>> /\ dependencies = <<>> /\ dependency_tree = <<>>
    /\ rs_outcome = "none"
    /\ rv_pc = "deps" /\ include_source_map \in BOOLEAN /\ rv_i = 1
    /\ rv_merged = <<>> /\ rv_outcome = "none" /\ inheritance_chain = <<>>

NextResolve ==
    \/ GetDependencies
    \/ BuildVisited
    \/ BuildBase
    \/ BuildParentNotFound
    \/ BuildRecurse
    \/ BuildAfter
    \/ GetDependenciesReturn
    \/ ResolveDepsRaised
    \/ ResolveStart
    \/ ResolveSkipMember
    \/ ResolveMergeMember
    \/ ResolveMergeTarget

SpecResolve == InitResolve /\ [][NextResolve]_vars

\* ------------------------------------------------- manager specification
\* a manager with two repositories and one call find_profile(profile_name, slicer)
InitManager ==
    /\ InitClient /\ VerifyOff /\ ResolverOff /\ MergeOff /\ SourceMapOff /\ ResolveOff
    /\ \E ns \in Namespaces, first \in ProfileLists(1), second \in ProfileLists(2),
          loaded \in [Clients -> BOOLEAN] :
          repositories = <<Client("ns1", first, loaded[1]), Client(ns, second, loaded[2])>>
    /\ profile_name \in {Unqualified(n) : n \in ProfileNames}
                        \cup {Qualified(ns, n) : ns \in Namespaces, n \in ProfileNames}
    /\ slicer \in Slicers
    /\ fp_pc = "call"
    /\ fp_return = NoProfile /\ fp_log = "" /\ fp_candidates = <<>>

NextManager ==
    \/ FindProfileQualified
    \/ FindProfileUnqualified

SpecManager == InitManager /\ [][NextManager]_vars

\* ===================================================================== claims
Range(seq) == {seq[i] : i \in DOMAIN seq}

\* the dependencies download_profile reads for an identifier
DepsOf(u) ==
    IF u \in DOMAIN profiles_by_uuid THEN profiles_by_uuid[u].dependencies ELSE {}

RECURSIVE ReachFrom(_, _)
ReachFrom(seen, frontier) ==
    IF frontier = {} THEN seen
    ELSE ReachFrom(seen \cup frontier,
                   (UNION {DepsOf(u) : u \in frontier}) \ (seen \cup frontier))

\* the identifiers reachable from root through `dependencies`, root included
Reachable(root) == ReachFrom({}, {root})

\* the members of the closure: the reachable identifiers that have a record
Closure(root) == Reachable(root) \cap DOMAIN profiles_by_uuid

RequestsFor(u) == Cardinality({i \in DOMAIN fetch_log : fetch_log[i].uuid = u})

AllFetchesSucceeded == \A i \in DOMAIN fetch_log : fetch_log[i].ok

\* the file a located parent name stands for
FileOf(path) == IF path \in FilePaths THEN files[path] ELSE Absent

\* following `inherits` from the file at path reaches a file already on the chain
RECURSIVE InheritsRevisits(_, _)
InheritsRevisits(path, chain) ==
    LET config == FileOf(path) IN
    IF ~config.exists \/ config.inherits = NoInherit THEN FALSE
    ELSE IF config.inherits \in chain \cup {path} THEN TRUE
    ELSE InheritsRevisits(config.inherits, chain \cup {path})

\* C1: when the inherits pointers from the requested configuration run into
\* a cycle, get_dependencies raises CircularDependencyError and returns nothing.
C1_CycleRaises ==
    (rs_pc = "done" /\ InheritsRevisits(config_path, {}))
        => rs_outcome = "CircularDependencyError"

\* C2: when download_profile returns because some artifact failed the digest
\* check, no file written by that call is left in the cache directory.
C2_MismatchLeavesNoFiles ==
    dl_return = "line142" =>
        \A i \in DOMAIN downloaded_files : downloaded_files[i] \notin DOMAIN cache_files

\* the manifests whose bytes carry a signature of a trusted key
VerifiedDocs == {JsonLoads(b) : b \in {x \in PublishedBytes : ~JsonDecodeError(x)}}

\* C3: manifest and profiles_by_uuid always derive from bytes whose detached
\* signature verified, and an update whose signature check fails, or whose
\* fetch fails, returns False and leaves both exactly as they were.
C3_UnverifiedManifestNeverInstalled ==
    /\ manifest = None \/ manifest \in VerifiedDocs
    /\ \/ profiles_by_uuid = EmptyIndex
       \/ \E d \in VerifiedDocs : d.has_profiles /\ profiles_by_uuid = IndexByUuid(d.profiles)
    /\ (upd_pc = "idle" /\ upd_result # "none" /\ ~GpgVerify(sig_data, manifest_data))
          => /\ upd_result = "False"
             /\ manifest = pre_manifest
             /\ profiles_by_uuid = pre_index

\* a rejected forged manifest with the earlier verified manifest still in place
C3_Witness ==
    /\ upd_pc = "idle" /\ upd_result = "False"
    /\ manifest_data = JsonBytes(EvilDoc) /\ sig_data.key = "attacker"
    /\ manifest = DiamondDoc /\ profiles_by_uuid = IndexByUuid(DiamondDoc.profiles)

\* C4: _verify_checksum returns True exactly when the algorithm is sha256 and
\* the sha256 digest of the content equals the hex value.
C4_VerifyIffSha256Match ==
    vc_pc = "done" =>
        (vc_result = "True" <=>
            (expected_checksum.algo = "sha256"
                /\ Sha256Hex(file_content) = expected_checksum.value))

\* C5: every file download_profile writes was checked against, and equals,
\* the sha256 digest the manifest publishes for its path.
C5_EveryWriteDigestChecked ==
    [][\A p \in Paths :
          (p \in DOMAIN cache_files' /\
              (p \notin DOMAIN cache_files \/ cache_files'[p] # cache_files[p]))
          => /\ p \in DOMAIN manifest.checksums
             /\ manifest.checksums[p].algo = "sha256"
             /\ manifest.checksums[p].value = Sha256Hex(cache_files'[p])]_vars

HasDuplicateUuid(profiles) ==
    \E i, j \in DOMAIN profiles : i # j /\ profiles[i].uuid = profiles[j].uuid

Malformed(data) ==
    \/ JsonDecodeError(data)
    \/ ~JsonLoads(data).has_profiles
    \/ HasDuplicateUuid(JsonLoads(data).profiles)

\* C6: an update whose signature-verified manifest is malformed does not
\* return True and leaves manifest and profiles_by_uuid unchanged.
C6_MalformedManifestRejected ==
    (upd_pc = "idle" /\ upd_result # "none"
        /\ GpgVerify(sig_data, manifest_data) /\ Malformed(manifest_data))
    => /\ upd_result # "True"
       /\ manifest = pre_manifest
       /\ profiles_by_uuid = pre_index

\* C7: a non-empty list returned by download_profile holds the path of every
\* member of the closure of the requested uuid.
C7_NoPartialSuccess ==
    (dl_return = "line156" /\ dl_value # <<>>) =>
        \A u \in Closure(dl_root) : profiles_by_uuid[u].path \in Range(dl_value)

\* C8: when every fetch succeeded and no digest check failed, the returned
\* list holds exactly one path for each member of the closure of the root,
\* none missing and none repeated, whatever the pop order was.
C8_ClosureExactlyOnce ==
    (dl_return = "line156" /\ AllFetchesSucceeded) =>
        /\ Range(dl_value) = {profiles_by_uuid[u].path : u \in Closure(dl_root)}
        /\ Len(dl_value) = Cardinality(Closure(dl_root))

\* the diamond root->{b,c}, b->d, c->d was downloaded in full, c before b
C8_Witness ==
    /\ dl_return = "line156" /\ AllFetchesSucceeded
    /\ profiles_by_uuid = IndexByUuid(DiamondDoc.profiles) /\ dl_root = "root"
    /\ dl_value = <<"root.json", "c.json", "d.json", "b.json">>

DocA(value) == [k \in {"a"} |-> value]
DocX(v) == [k \in {"x"} |-> Scalar(v)]
DocY(v) == [k \in {"y"} |-> Scalar(v)]
DocXY(v, w) == [k \in {"x", "y"} |-> IF k = "x" THEN Scalar(v) ELSE Scalar(w)]

\* C10: _merge_config from an empty accumulator computes the deep merge: a key
\* of the incoming document whose value and whose accumulator value are both
\* mappings is merged key by key, any other incoming key replaces the
\* accumulator's value outright, and the other keys are kept.
C10_DeepMerge ==
    (mg_pc = "run" /\ n_merged > 0) =>
        /\ n_merged = 1 => (mg_before = EmptyDoc /\ resolved_config = mg_source)
        /\ DOMAIN resolved_config = DOMAIN mg_before \cup DOMAIN mg_source
        /\ \A k \in DOMAIN resolved_config :
              IF k \notin DOMAIN mg_source THEN resolved_config[k] = mg_before[k]
              ELSE IF k \in DOMAIN mg_before /\ mg_before[k].is_map /\ mg_source[k].is_map
                   THEN /\ resolved_config[k].is_map
                        /\ DOMAIN resolved_config[k].map =
                              DOMAIN mg_before[k].map \cup DOMAIN mg_source[k].map
                        /\ \A j \in DOMAIN resolved_config[k].map :
                              resolved_config[k].map[j] =
                                 IF j \in DOMAIN mg_source[k].map
                                 THEN mg_source[k].map[j]
                                 ELSE mg_before[k].map[j]
                   ELSE resolved_config[k] = mg_source[k]
        /\ (mg_before = DocA(Mapping(DocXY(1, 2))) /\ mg_source = DocA(Mapping(DocY(3))))
              => resolved_config = DocA(Mapping(DocXY(1, 3)))
        /\ (mg_before = DocA(Mapping(DocX(1))) /\ mg_source = DocA(Scalar(5)))
              => resolved_config = DocA(Scalar(5))

\* [{a:{x:1,y:2}}, {a:{y:3}}] merged into {a:{x:1,y:3}}
C10_Witness ==
    /\ mg_pc = "run" /\ n_merged = 2
    /\ mg_before = DocA(Mapping(DocXY(1, 2))) /\ mg_source = DocA(Mapping(DocY(3)))
    /\ resolved_config = DocA(Mapping(DocXY(1, 3)))

\* C9: within one download_profile call each identifier is requested from
\* the network at most once.
C9_FetchedAtMostOnce == \A u \in UUIDs : RequestsFor(u) <= 1

\* the provenance the source map holds for a leaf path: the entry recorded
\* for the field, or for the nearest enclosing field that has one
ProvenanceOf(path) ==
    IF source_map.kind = "dict" /\ path[1] \in DOMAIN source_map.entries
    THEN source_map.entries[path[1]]
    ELSE ""

\* C11: with the source map enabled, merging a sequence of documents
\* completes, and for every leaf path of the merged document the source map
\* gives the name of the last document that set that path.
C11_SourceMapProvenance ==
    (mg_pc = "map" /\ n_merged > 0) =>
        /\ mg_raised = ""
        /\ \A p \in LeafPaths(resolved_config) : ProvenanceOf(p) = mg_prov[p]

\* the paths of the ancestors of the file at path, from the most distant one
\* down to the immediate parent (for a chain that does not revisit a file)
RECURSIVE Ancestors(_)
Ancestors(path) ==
    LET config == FileOf(path) IN
    IF ~config.exists \/ config.inherits = NoInherit \/ ~FileOf(config.inherits).exists
    THEN <<>>
    ELSE Append(Ancestors(config.inherits), config.inherits)

NamesOf(paths) == [i \in DOMAIN paths |-> FileOf(paths[i]).name]

\* C12: for an acyclic inheritance chain, the resolution_order that
\* get_dependencies returns lists the names of the ancestors from the most
\* distant one down to the immediate parent, each once, and does not contain
\* the requested configuration itself.
C12_ResolutionOrderIsAncestors ==
    (rs_pc = "done" /\ rs_outcome = "returned" /\ ~InheritsRevisits(config_path, {}))
        => resolution_order = NamesOf(Ancestors(config_path))

\* every inherits pointer on the chain from path finds a file, and every
\* ancestor is the file _find_and_load_config finds under its own name
RECURSIVE MembersLocatable(_)
MembersLocatable(path) ==
    LET config == FileOf(path) IN
    \/ config.inherits = NoInherit
    \/ /\ FindAndLoadConfig(config.inherits).exists
       /\ FileOf(config.inherits).name = config.inherits
       /\ MembersLocatable(config.inherits)

\* the deep merge of the documents at these paths, in this order
RECURSIVE DeepMergeOf(_)
DeepMergeOf(paths) ==
    IF paths = <<>> THEN EmptyDoc
    ELSE MergeConfig(DeepMergeOf(SubSeq(paths, 1, Len(paths) - 1)),
                     ConfigDocument(paths[Len(paths)]))

\* C13: for an acyclic chain whose members are all locatable, resolve_config
\* returns as resolved_config the deep merge of the documents of all
\* ancestors, from the most distant one to the immediate parent, with the
\* target's document merged last.
C13_ResolvedIsChainMerge ==
    (/\ rv_pc = "done" /\ ~include_source_map
     /\ files[config_path].exists
     /\ ~InheritsRevisits(config_path, {})
     /\ MembersLocatable(config_path))
        => /\ rv_outcome = "returned"
           /\ resolved_config = DeepMergeOf(Append(Ancestors(config_path), config_path))

\* the records of the loaded repositories that carry the requested name and
\* slicer, as (client, position) pairs
Matching ==
    {m \in Clients \X (1..MaxProfiles) :
        /\ m[1] \in DOMAIN repositories /\ repositories[m[1]].loaded
        /\ m[2] \in DOMAIN repositories[m[1]].profiles
        /\ repositories[m[1]].profiles[m[2]].name = profile_name.name
        /\ repositories[m[1]].profiles[m[2]].slicer = slicer}

\* C14: an unqualified name with matching records (name and slicer) in two
\* different namespaces gives the Ambiguous outcome naming both namespaces,
\* told apart from NotFound; a qualified name gives one matching record of
\* that namespace or NotFound.
C14_AmbiguousAcrossNamespaces ==
    fp_pc = "done" =>
        LET namespaces == {repositories[m[1]].namespace : m \in Matching} IN
        /\ (~profile_name.qualified /\ Cardinality(namespaces) >= 2)
              => /\ fp_log = "ambiguous"
                 /\ {fp_candidates[k].namespace : k \in DOMAIN fp_candidates} = namespaces
        /\ (~profile_name.qualified /\ Matching = {}) => fp_log = "not found"
        /\ profile_name.qualified
              => \/ fp_return = NoProfile
                 \/ \E m \in Matching :
                       /\ repositories[m[1]].namespace = profile_name.namespace
                       /\ fp_return = repositories[m[1]].profiles[m[2]]

\* C16: when exactly one record of the loaded repositories has the requested
\* name and slicer, find_profile with the unqualified name returns that
\* record, whatever other records are present.
C16_UniqueMatchReturned ==
    (fp_pc = "done" /\ ~profile_name.qualified /\ Cardinality(Matching) = 1)
        => \E m \in Matching : fp_return = repositories[m[1]].profiles[m[2]]

\* the uuid index of the profiles of a manifest (empty without a manifest or
\* without profiles)
IndexOf(m) ==
    IF m.present /\ m.has_profiles THEN IndexByUuid(m.profiles) ELSE EmptyIndex

\* C15: in every state another request can observe, while update runs and
\* after it returned, profiles_by_uuid is exactly the uuid index of the
\* profiles of the visible manifest.
C15_IndexMatchesVisibleManifest ==
    profiles_by_uuid = IndexOf(manifest)

\* C17: download_profile terminates for every finite manifest, cyclic
\* dependencies included, and for every combination of successful and failed
\* requests: the loop eventually empties download_queue or returns.
C17_DownloadTerminates == <>(dl_pc = "idle")

====
